---- MODULE Spec2Model ----
(***************************************************************************)
(* Model of tools/resources/update.py: the version-gated download of the   *)
(* WebRTC resource archive.  One run of main() is a sequence of steps, one  *)
(* per I/O operation of the script; the filesystem (resource directory,    *)
(* version marker, DEPS manifest, temporary directory) persists between    *)
(* runs.  Every I/O step named by the script's error paths may fail.       *)
(***************************************************************************)
EXTENDS Integers, Sequences, FiniteSets, TLC

(* ---------------------------------------------------------------------- *)
(* Bounds                                                                  *)
(* ---------------------------------------------------------------------- *)

\* Largest version number; 10 makes the marker text two characters long.
MaxVersion == 10

\* Size of every archive, in chunks of chunk_size bytes.
ArchiveChunks == 2

\* Versions a manifest may name: zero, a one-digit and a multi-digit one.
Versions == {0, 1, MaxVersion}

\* current_version / desired_version before they are assigned.
NoVersion == -1

(* ---------------------------------------------------------------------- *)
(* Values                                                                  *)
(* ---------------------------------------------------------------------- *)

\* Resource directory: missing, empty, or holding files of archive ver,
\* all of them ("full") or only some ("partial").
NoDir == [st |-> "nodir", ver |-> NoVersion]
EmptyDir == [st |-> "empty", ver |-> NoVersion]
PartialDir(v) == [st |-> "partial", ver |-> v]
FullDir(v) == [st |-> "full", ver |-> v]

\* Version marker file: absent, or present with its text.
NoMarker == [exists |-> FALSE, text |-> <<>>]
MarkerWith(t) == [exists |-> TRUE, text |-> t]

\* The DEPS file: missing, without the key, with a non-integer value, or
\* binding the key to an integer.
DepsValues ==
  {[kind |-> k, val |-> NoVersion] : k \in {"missing", "nokey", "nonint"}}
    \cup {[kind |-> "ok", val |-> v] : v \in Versions}

\* Values of WEBRTC_SKIP_RESOURCES_DOWNLOAD: unset, empty, or non-empty.
EnvValues == {"<unset>", "", "1", "0"}

\* Content-Length header of a response: missing, not a number, or a number
\* (in chunks).
HeaderValues ==
  {[kind |-> "missing", n |-> 0], [kind |-> "garbage", n |-> 0],
   [kind |-> "int", n |-> 0], [kind |-> "int", n |-> ArchiveChunks]}

NoResponse == [header |-> [kind |-> "missing", n |-> 0], body |-> 0]

InstallErrors == {"delete_error", "mkdir_error", "extract_error"}

(* ---------------------------------------------------------------------- *)
(* Pure functions                                                          *)
(* ---------------------------------------------------------------------- *)

DigitChar(d) ==
  CASE d = 0 -> "0" [] d = 1 -> "1" [] d = 2 -> "2" [] d = 3 -> "3"
    [] d = 4 -> "4" [] d = 5 -> "5" [] d = 6 -> "6" [] d = 7 -> "7"
    [] d = 8 -> "8" [] d = 9 -> "9"

DigitValue(c) ==
  CASE c = "0" -> 0 [] c = "1" -> 1 [] c = "2" -> 2 [] c = "3" -> 3
    [] c = "4" -> 4 [] c = "5" -> 5 [] c = "6" -> 6 [] c = "7" -> 7
    [] c = "8" -> 8 [] c = "9" -> 9 [] OTHER -> -1

\* Variant: only the last digit is written.
FormatDecimal_LastDigit(n) == <<DigitChar(n % 10)>>

\* '%d' % n for n >= 0, as a sequence of characters.
RECURSIVE FormatDecimal(_)
FormatDecimal(n) ==
  IF n < 10 THEN <<DigitChar(n)>>
  ELSE Append(FormatDecimal(n \div 10), DigitChar(n % 10))

\* int(text): the value, or NoVersion where int() raises ValueError.
RECURSIVE ParseInt(_)
ParseInt(text) ==
  IF text = <<>> THEN NoVersion
  ELSE LET last == DigitValue(text[Len(text)])
           front == SubSeq(text, 1, Len(text) - 1)
       IN IF last < 0 THEN NoVersion
          ELSE IF front = <<>> THEN last
          ELSE IF ParseInt(front) < 0 THEN NoVersion
          ELSE 10 * ParseInt(front) + last

\* Variant: a missing marker file counts as version 1.
ReadCurrentVersion_DefaultOne(m) == IF ~m.exists THEN 1 ELSE ParseInt(m.text)

\* What _get_current_version returns for a marker file it can read: 0 when
\* there is no file, int(f.read()) otherwise (NoVersion: int() raises).
ReadCurrentVersion(m) == IF ~m.exists THEN 0 ELSE ParseInt(m.text)

\* Variant: only the value "1" skips the download.
SkipRequested_OnlyOne(env) == env = "1"

\* os.getenv(...) is truthy: the variable is set and not empty.
SkipRequested(env) == env # "<unset>" /\ env # ""

\* Variant: the comparison is >= instead of !=.
NeedsSync_GreaterEqual(desired, current, forced) ==
  desired >= current \/ forced

\* The test of main() that decides between download and "already have".
NeedsSync(desired, current, forced) == desired # current \/ forced

\* What a failed shutil.rmtree may leave of the directory's data files.
RmtreeLeftovers(d) ==
  IF d.st \in {"full", "partial"} THEN {d, PartialDir(d.ver), EmptyDir}
  ELSE {d}

(* ---------------------------------------------------------------------- *)
(* State                                                                   *)
(* ---------------------------------------------------------------------- *)

VARIABLES
  dir,              \* the resource directory (downloads_dir)
  marker,           \* the version marker file inside it
  deps,             \* the DEPS manifest
  tempDir,          \* TRUE while the temporary download directory exists
  tempFile,         \* chunks written to the downloaded archive file
  skip_env,         \* os.getenv('WEBRTC_SKIP_RESOURCES_DOWNLOAD') of the run
  pc,               \* position of the running main(), "idle" between runs
  force,            \* options.force of the run
  current_version,  \* as read by _get_current_version
  desired_version,  \* as read by _get_desired_version
  found,            \* "Found downloaded resources" was printed
  response,         \* the open HTTP response: header and chunks still to come
  total_size,       \* total_size of _read_chunks
  exc,              \* exception propagating out of the try block
  result,           \* how the last run ended
  log,              \* I/O operations of the current (or last) run, in order
  pre,              \* directory and marker when main() was invoked
  atDownload,       \* directory and marker when _perform_download was entered
  prev              \* result and desired version of the run before

vars == <<dir, marker, deps, tempDir, tempFile, skip_env, pc, force, current_version,
          desired_version, found, response, total_size, exc, result, log,
          pre, atDownload, prev>>

fsVars == <<dir, marker, deps, tempDir, tempFile>>
runVars == <<skip_env, force, current_version, desired_version, found, response,
             total_size, exc>>
histVars == <<pre, atDownload, prev>>

Snapshot == [dir |-> dir, marker |-> marker]
NoSnapshot == [dir |-> NoDir, marker |-> NoMarker]

Init ==
  /\ dir = NoDir
  /\ marker = NoMarker
  /\ deps \in DepsValues
  /\ tempDir = FALSE
  /\ tempFile = 0
  /\ skip_env = "<unset>"
  /\ pc = "idle"
  /\ force = FALSE
  /\ current_version = NoVersion
  /\ desired_version = NoVersion
  /\ found = FALSE
  /\ response = NoResponse
  /\ total_size = 0
  /\ exc = "none"
  /\ result = "none"
  /\ log = <<>>
  /\ pre = NoSnapshot
  /\ atDownload = NoSnapshot
  /\ prev = [result |-> "none", desired |-> NoVersion]

(* ---------------------------------------------------------------------- *)
(* The environment between runs                                            *)
(* ---------------------------------------------------------------------- *)

\* Somebody edits (or removes) DEPS while no run is in progress.
EditDeps ==
  /\ pc = "idle"
  /\ \E d \in DepsValues \ {deps} : deps' = d
  /\ UNCHANGED <<dir, marker, tempDir, tempFile, pc, result, log>>
  /\ UNCHANGED runVars
  /\ UNCHANGED histVars

(* ---------------------------------------------------------------------- *)
(* main()                                                                  *)
(* ---------------------------------------------------------------------- *)

\* main() up to parse_args: the skip switch, then "ensure the downloads dir
\* is created".
MainEnter ==
  /\ pc = "idle"
  /\ \E env \in EnvValues, f \in BOOLEAN :
       /\ skip_env' = env
       /\ force' = f
       /\ IF SkipRequested(env)
          THEN /\ pc' = "idle"
               /\ result' = "skipped"
               /\ log' = <<>>
               /\ dir' = dir
          ELSE /\ pc' = "get_current"
               /\ result' = "running"
               /\ IF dir.st = "nodir"
                  THEN dir' = EmptyDir /\ log' = <<"mkdir_downloads_dir">>
                  ELSE dir' = dir /\ log' = <<>>
  /\ pre' = Snapshot
  /\ atDownload' = NoSnapshot
  /\ prev' = [result |-> result, desired |-> desired_version]
  /\ current_version' = NoVersion
  /\ desired_version' = NoVersion
  /\ found' = FALSE
  /\ response' = NoResponse
  /\ total_size' = 0
  /\ exc' = "none"
  /\ UNCHANGED <<marker, deps, tempDir, tempFile>>

\* _get_current_version: 0 without a marker file, int(f.read()) with one.
GetCurrentVersion ==
  /\ pc = "get_current"
  /\ log' = Append(log, "get_current_version")
  /\ IF ReadCurrentVersion(marker) = NoVersion
     THEN /\ pc' = "idle"
          /\ result' = "marker_error"
          /\ UNCHANGED <<current_version, found>>
     ELSE /\ current_version' = ReadCurrentVersion(marker)
          /\ found' = marker.exists
          /\ pc' = "get_desired"
          /\ result' = result
  /\ UNCHANGED fsVars
  /\ UNCHANGED <<skip_env, force, desired_version, response, total_size, exc>>
  /\ UNCHANGED histVars

\* Variant: a manifest without the key counts as version 0.
GetDesiredVersion_DefaultZero ==
  /\ pc = "get_desired"
  /\ log' = Append(log, "get_desired_version")
  /\ IF deps.kind \in {"ok", "nokey"}
     THEN /\ desired_version' = IF deps.kind = "ok" THEN deps.val ELSE 0
          /\ pc' = "compare"
          /\ result' = result
     ELSE /\ pc' = "idle"
          /\ result' = "manifest_error"
          /\ UNCHANGED desired_version
  /\ UNCHANGED fsVars
  /\ UNCHANGED <<skip_env, force, current_version, found, response,
                 total_size, exc>>
  /\ UNCHANGED histVars

\* _get_desired_version: execfile(DEPS) and int(vars[DEPS_KEY]).
GetDesiredVersion ==
  /\ pc = "get_desired"
  /\ log' = Append(log, "get_desired_version")
  /\ IF deps.kind = "ok"
     THEN /\ desired_version' = deps.val
          /\ pc' = "compare"
          /\ result' = result
     ELSE /\ pc' = "idle"
          /\ result' = "manifest_error"
          /\ UNCHANGED desired_version
  /\ UNCHANGED fsVars
  /\ UNCHANGED <<skip_env, force, current_version, found, response,
                 total_size, exc>>
  /\ UNCHANGED histVars

\* if desired_version != current_version or options.force: ... else: print
CompareVersions ==
  /\ pc = "compare"
  /\ IF NeedsSync(desired_version, current_version, force)
     THEN /\ pc' = "mkdtemp"
          /\ result' = result
          /\ atDownload' = Snapshot
     ELSE /\ pc' = "idle"
          /\ result' = "uptodate"
          /\ UNCHANGED atDownload
  /\ UNCHANGED fsVars
  /\ UNCHANGED runVars
  /\ UNCHANGED <<log, pre, prev>>

(* ---------------------------------------------------------------------- *)
(* _perform_download()                                                     *)
(* ---------------------------------------------------------------------- *)

\* Variant: no finally clause, the exception leaves the function at once.
Raise_NoFinally(e) ==
  /\ exc' = e
  /\ pc' = "idle"

\* An exception leaves the try block: control goes to the finally clause.
Raise(e) ==
  /\ exc' = e
  /\ pc' = "finally"

\* temp_dir = tempfile.mkdtemp(prefix='webrtc-resources-')
Mkdtemp ==
  /\ pc = "mkdtemp"
  /\ tempDir' = TRUE
  /\ tempFile' = 0
  /\ pc' = "urlopen"
  /\ log' = Append(log, "mkdtemp")
  /\ UNCHANGED <<dir, marker, deps, result>>
  /\ UNCHANGED runVars
  /\ UNCHANGED histVars

\* response = urllib2.urlopen(remote_archive_url); temp_file = open(...)
\* The connection fails, the server answers with an error status, or a
\* response arrives whose body delivers some or all chunks of the archive.
UrlOpen ==
  /\ pc = "urlopen"
  /\ log' = Append(log, "urlopen")
  /\ \/ /\ Raise("fetch_error")
        /\ UNCHANGED response
     \/ /\ \E h \in HeaderValues, b \in 0..ArchiveChunks :
             response' = [header |-> h, body |-> b]
        /\ pc' = "content_length"
        /\ UNCHANGED exc
  /\ UNCHANGED fsVars
  /\ UNCHANGED <<skip_env, force, current_version, desired_version, found,
                 total_size>>
  /\ UNCHANGED result
  /\ UNCHANGED histVars

\* Variant: a missing or unparsable Content-Length counts as 0.
ReadContentLength_Lenient ==
  /\ pc = "content_length"
  /\ total_size' = response.header.n
  /\ pc' = "read_chunk"
  /\ UNCHANGED exc
  /\ UNCHANGED fsVars
  /\ UNCHANGED <<skip_env, force, current_version, desired_version, found,
                 response>>
  /\ UNCHANGED <<result, log>>
  /\ UNCHANGED histVars

\* _read_chunks: total_size = int(getheader('Content-Length').strip())
ReadContentLength ==
  /\ pc = "content_length"
  /\ IF response.header.kind = "int"
     THEN /\ total_size' = response.header.n
          /\ pc' = "read_chunk"
          /\ UNCHANGED exc
     ELSE /\ Raise("fetch_error")
          /\ UNCHANGED total_size
  /\ UNCHANGED fsVars
  /\ UNCHANGED <<skip_env, force, current_version, desired_version, found,
                 response>>
  /\ UNCHANGED <<result, log>>
  /\ UNCHANGED histVars

\* Variant: the test that ends the loop is inverted (if chunk: break).
ReadChunk_BreakOnData ==
  /\ pc = "read_chunk"
  /\ \/ /\ Raise("fetch_error")
        /\ UNCHANGED <<response, tempFile, log>>
     \/ /\ response.body > 0
        /\ response' = [response EXCEPT !.body = @ - 1]
        /\ tempFile' = tempFile + 1
        /\ pc' = "rmtree"
        /\ log' = Append(log, "download_complete")
        /\ UNCHANGED exc
  /\ UNCHANGED <<dir, marker, deps, tempDir>>
  /\ UNCHANGED <<skip_env, force, current_version, desired_version, found,
                 total_size>>
  /\ UNCHANGED result
  /\ UNCHANGED histVars

\* _read_chunks: one turn of the while loop.  response.read raises, returns
\* a chunk (written to the file, then reported by _print_progress, which
\* divides by total_size), or returns the empty chunk that ends the loop;
\* temp_file.close() follows the loop.
ReadChunk ==
  /\ pc = "read_chunk"
  /\ \/ /\ Raise("fetch_error")
        /\ UNCHANGED <<response, tempFile, log>>
     \/ /\ response.body > 0
        /\ response' = [response EXCEPT !.body = @ - 1]
        /\ tempFile' = tempFile + 1
        /\ IF total_size = 0
           THEN Raise("fetch_error")
           ELSE pc' = "read_chunk" /\ UNCHANGED exc
        /\ UNCHANGED log
     \/ /\ response.body = 0
        /\ pc' = "rmtree"
        /\ log' = Append(log, "download_complete")
        /\ UNCHANGED <<response, tempFile, exc>>
  /\ UNCHANGED <<dir, marker, deps, tempDir>>
  /\ UNCHANGED <<skip_env, force, current_version, desired_version, found,
                 total_size>>
  /\ UNCHANGED result
  /\ UNCHANGED histVars

\* shutil.rmtree(downloads_dir): removes the marker and every file, or
\* fails after removing any part of them.
Rmtree ==
  /\ pc = "rmtree"
  /\ log' = Append(log, "rmtree")
  /\ \/ /\ dir' = NoDir
        /\ marker' = NoMarker
        /\ pc' = "mkdir"
        /\ UNCHANGED exc
     \/ /\ dir' \in RmtreeLeftovers(dir)
        /\ marker' \in {marker, NoMarker}
        /\ Raise("delete_error")
  /\ UNCHANGED <<deps, tempDir, tempFile>>
  /\ UNCHANGED <<skip_env, force, current_version, desired_version, found,
                 response, total_size>>
  /\ UNCHANGED result
  /\ UNCHANGED histVars

\* os.mkdir(downloads_dir)
Mkdir ==
  /\ pc = "mkdir"
  /\ log' = Append(log, "mkdir")
  /\ \/ /\ dir' = EmptyDir
        /\ pc' = "extract"
        /\ UNCHANGED exc
     \/ /\ Raise("mkdir_error")
        /\ UNCHANGED dir
  /\ UNCHANGED <<marker, deps, tempDir, tempFile>>
  /\ UNCHANGED <<skip_env, force, current_version, desired_version, found,
                 response, total_size>>
  /\ UNCHANGED result
  /\ UNCHANGED histVars

\* tarfile.open(temp_filename, 'r:gz'); archive.extractall(downloads_dir)
\* Succeeds only on a completely downloaded archive; a failure leaves the
\* directory empty or partially extracted.
Extract ==
  /\ pc = "extract"
  /\ log' = Append(log, "extractall")
  /\ \/ /\ tempFile = ArchiveChunks
        /\ dir' = FullDir(desired_version)
        /\ pc' = "write_version"
        /\ UNCHANGED exc
     \/ /\ dir' \in {EmptyDir, PartialDir(desired_version)}
        /\ Raise("extract_error")
  /\ UNCHANGED <<marker, deps, tempDir, tempFile>>
  /\ UNCHANGED <<skip_env, force, current_version, desired_version, found,
                 response, total_size>>
  /\ UNCHANGED result
  /\ UNCHANGED histVars

\* f = open(new_version_file, 'w'); f.write('%d' % desired_version); f.close()
\* A failure of open leaves no file, a failure of write or close (disk full)
\* leaves the file open() created, empty.
WriteVersion ==
  /\ pc = "write_version"
  /\ log' = Append(log, "write_version")
  /\ \/ /\ marker' = MarkerWith(FormatDecimal(desired_version))
        /\ pc' = "finally"
        /\ UNCHANGED exc
     \/ /\ marker' \in {NoMarker, MarkerWith(<<>>)}
        /\ Raise("write_error")
  /\ UNCHANGED <<dir, deps, tempDir, tempFile>>
  /\ UNCHANGED <<skip_env, force, current_version, desired_version, found,
                 response, total_size>>
  /\ UNCHANGED result
  /\ UNCHANGED histVars

\* finally: shutil.rmtree(temp_dir); then _perform_download returns or the
\* exception propagates out of main().
CleanupTempDir ==
  /\ pc = "finally"
  /\ tempDir' = FALSE
  /\ tempFile' = 0
  /\ log' = Append(log, "rmtree_temp_dir")
  /\ result' = IF exc = "none" THEN "synced" ELSE exc
  /\ pc' = "idle"
  /\ UNCHANGED <<dir, marker, deps>>
  /\ UNCHANGED runVars
  /\ UNCHANGED histVars

(* ---------------------------------------------------------------------- *)
(* Specification                                                           *)
(* ---------------------------------------------------------------------- *)

Next ==
  \/ EditDeps
  \/ MainEnter
  \/ GetCurrentVersion
  \/ GetDesiredVersion
  \/ CompareVersions
  \/ Mkdtemp
  \/ UrlOpen
  \/ ReadContentLength
  \/ ReadChunk
  \/ Rmtree
  \/ Mkdir
  \/ Extract
  \/ WriteVersion
  \/ CleanupTempDir

Spec == Init /\ [][Next]_vars

TypeOK ==
  /\ dir \in {NoDir, EmptyDir} \cup {PartialDir(v) : v \in Versions}
               \cup {FullDir(v) : v \in Versions}
  /\ marker.exists \in BOOLEAN
  /\ deps \in DepsValues
  /\ tempDir \in BOOLEAN
  /\ tempFile \in 0..ArchiveChunks
  /\ force \in BOOLEAN
  /\ current_version \in Versions \cup {NoVersion}
  /\ desired_version \in Versions \cup {NoVersion}

(* ---------------------------------------------------------------------- *)
(* Vocabulary of the properties                                            *)
(* ---------------------------------------------------------------------- *)

Has(e) == \E i \in DOMAIN log : log[i] = e
Count(e) == Cardinality({i \in DOMAIN log : log[i] = e})
Before(a, b) == \E i, j \in DOMAIN log : i < j /\ log[i] = a /\ log[j] = b

MainReads == <<"get_current_version", "get_desired_version">>

DownloadSteps ==
  <<"mkdtemp", "urlopen", "download_complete", "rmtree", "mkdir",
    "extractall", "write_version", "rmtree_temp_dir">>

Failures ==
  {"marker_error", "manifest_error", "fetch_error", "delete_error",
   "mkdir_error", "extract_error", "write_error"}

InstallOrWriteErrors == InstallErrors \cup {"write_error"}

\* Both versions of the run are read, they are equal and force is off.
UpToDateCase ==
  /\ desired_version # NoVersion
  /\ desired_version = current_version
  /\ ~force

\* Both versions of the run are read and they differ, or force is on.
SyncCase ==
  /\ desired_version # NoVersion
  /\ (desired_version # current_version \/ force)

(* ---------------------------------------------------------------------- *)
(* C1                                                                      *)
(* ---------------------------------------------------------------------- *)

\* C1 as stated: in a run with the skip switch unset, force off and desired
\* version equal to current version, the resource directory (its existence
\* included) and the marker are as before the run, and the only I/O is the
\* two reads.
C1_NoMutationAtAll ==
  UpToDateCase =>
    /\ dir = pre.dir
    /\ marker = pre.marker
    /\ ~tempDir
    /\ log = MainReads

\* C1 amended: in such a run the marker and the directory's contents are as
\* before, nothing is fetched and no temporary directory is made; the only
\* I/O besides the two reads is the creation of the resource directory,
\* empty, when it did not exist.
C1_NoMutationButMkdir ==
  UpToDateCase =>
    /\ pc \in {"compare", "idle"}
    /\ pc = "idle" => result = "uptodate"
    /\ marker = pre.marker
    /\ ~tempDir
    /\ IF pre.dir = NoDir
       THEN dir = EmptyDir /\ log = <<"mkdir_downloads_dir">> \o MainReads
       ELSE dir = pre.dir /\ log = MainReads

C1_Witness ==
  /\ pc = "idle"
  /\ result = "uptodate"
  /\ UpToDateCase
  /\ pre.marker.exists
  /\ dir = FullDir(desired_version)

(* ---------------------------------------------------------------------- *)
(* C2                                                                      *)
(* ---------------------------------------------------------------------- *)

\* C2: a run whose versions differ or that is forced, and in which no step
\* fails, does exactly one fetch, one delete-and-extract and one marker
\* write, in that order; the delete starts only after the response has been
\* read to its end, the marker write only after the extraction is complete.
C2_FetchInstallWriteInOrder ==
  /\ (pc = "idle" /\ SyncCase /\ result \notin Failures) =>
       /\ result = "synced"
       /\ Len(log) >= Len(DownloadSteps)
       /\ SubSeq(log, Len(log) - Len(DownloadSteps) + 1, Len(log))
            = DownloadSteps
       /\ \A e \in {"urlopen", "rmtree", "extractall", "write_version"} :
            Count(e) = 1
       /\ dir = FullDir(desired_version)
       /\ marker.exists /\ ParseInt(marker.text) = desired_version
  /\ (pc = "rmtree" \/ Has("rmtree")) =>
       /\ response.body = 0
       /\ Has("download_complete")
       /\ ~Before("rmtree", "download_complete")
  /\ pc = "write_version" => dir = FullDir(desired_version)
  /\ Has("write_version") => Before("extractall", "write_version")

C2_Witness ==
  /\ pc = "idle"
  /\ result = "synced"
  /\ pre.marker.exists
  /\ pre.dir.st = "full"
  /\ pre.dir.ver # desired_version

(* ---------------------------------------------------------------------- *)
(* C3                                                                      *)
(* ---------------------------------------------------------------------- *)

\* C3: whenever the marker file exists and records version V, the resource
\* directory holds exactly the complete contents of archive V.
C3_MarkerAgreesWithDir ==
  (marker.exists /\ ParseInt(marker.text) # NoVersion) =>
    dir = FullDir(ParseInt(marker.text))

(* ---------------------------------------------------------------------- *)
(* C4                                                                      *)
(* ---------------------------------------------------------------------- *)

\* C4: while the archive is fetched, and after the fetch has failed (no
\* connection, error status, Content-Length missing or unparsable, error
\* while streaming), the resource directory and the marker are what they
\* were when _perform_download was entered; the failed run ends in failure
\* and reaches neither the delete nor the marker write.
C4_FetchFailureLeavesResources ==
  /\ pc \in {"mkdtemp", "urlopen", "content_length", "read_chunk"} =>
       dir = atDownload.dir /\ marker = atDownload.marker
  /\ exc = "fetch_error" =>
       /\ pc \in {"finally", "idle"}
       /\ pc = "idle" => result = "fetch_error"
       /\ dir = atDownload.dir
       /\ marker = atDownload.marker
       /\ ~Has("rmtree")
       /\ ~Has("write_version")
  /\ (pc = "read_chunk" \/ Has("download_complete")) =>
       response.header.kind = "int"

C4_Witness ==
  /\ pc = "idle"
  /\ result = "fetch_error"
  /\ response.header.kind = "missing"
  /\ marker.exists
  /\ dir.st = "full"

(* ---------------------------------------------------------------------- *)
(* C5                                                                      *)
(* ---------------------------------------------------------------------- *)

C6_SkipDoesNothing ==
  skip_env \notin {"<unset>", ""} =>
    /\ pc = "idle"
    /\ result = "skipped"
    /\ log = <<>>
    /\ current_version = NoVersion
    /\ desired_version = NoVersion
    /\ dir = pre.dir
    /\ marker = pre.marker
    /\ ~tempDir

C6_Witness ==
  /\ pc = "idle"
  /\ result = "skipped"
  /\ skip_env = "0"
  /\ force
  /\ deps.kind = "missing"
  /\ marker = MarkerWith(<<>>)

(* ---------------------------------------------------------------------- *)
(* C7                                                                      *)
(* ---------------------------------------------------------------------- *)

\* C7: the run that follows a successful sync to V, with the same desired
\* version and force off, reads V as current version, is classified up to
\* date and neither downloads, deletes nor writes the marker.
C7_SyncThenUpToDate ==
  (/\ prev.result = "synced"
   /\ desired_version # NoVersion
   /\ desired_version = prev.desired
   /\ ~force) =>
    /\ current_version = desired_version
    /\ found
    /\ pc \in {"compare", "idle"}
    /\ pc = "idle" => result = "uptodate"
    /\ log = MainReads
    /\ dir = pre.dir
    /\ marker = pre.marker

C7_Witness ==
  /\ pc = "idle"
  /\ prev.result = "synced"
  /\ prev.desired = MaxVersion
  /\ result = "uptodate"
  /\ desired_version = MaxVersion

(* ---------------------------------------------------------------------- *)
(* C8                                                                      *)
(* ---------------------------------------------------------------------- *)

\* C8: a missing marker file reads as version 0 without the "found" report,
\* a marker file holding "0" reads as version 0 with it; and a run with
\* desired version 0, no marker file and force off is classified up to date
\* and does not enter the download.
C8_MissingMarkerIsZero ==
  /\ (pc \in {"get_desired", "compare"} /\ ~marker.exists) =>
       current_version = 0 /\ ~found
  /\ (pc \in {"get_desired", "compare"} /\ marker = MarkerWith(<<"0">>)) =>
       current_version = 0 /\ found
  /\ (~pre.marker.exists /\ desired_version = 0 /\ ~force) =>
       /\ pc \in {"compare", "idle"}
       /\ pc = "idle" => result = "uptodate"
       /\ ~Has("mkdtemp")

C8_Witness ==
  /\ pc = "idle"
  /\ result = "uptodate"
  /\ ~pre.marker.exists
  /\ ~marker.exists
  /\ desired_version = 0
  /\ current_version = 0
  /\ ~found

(* ---------------------------------------------------------------------- *)
(* C9                                                                      *)
(* ---------------------------------------------------------------------- *)

\* C9: a run that failed in the delete, the extraction or the marker write
\* has not changed the marker to the desired version, and the next run with
\* the same desired version and force off reads the marker, finds the
\* versions different and enters the download again.
C9_FailedInstallIsRetried ==
  /\ (pc = "idle" /\ result \in InstallOrWriteErrors) =>
       \/ marker = pre.marker
       \/ ~marker.exists
       \/ ParseInt(marker.text) # desired_version
  /\ (/\ prev.result \in InstallOrWriteErrors
      /\ pc = "idle"
      /\ ~force
      /\ skip_env \in {"<unset>", ""}) =>
       /\ result # "marker_error"
       /\ desired_version = prev.desired =>
            current_version # desired_version /\ Has("mkdtemp")

(* ---------------------------------------------------------------------- *)
(* C10                                                                     *)
(* ---------------------------------------------------------------------- *)

\* C10 as stated: when _get_desired_version fails, the run ends in failure
\* with the resource directory (its existence included) and the marker as
\* they were when main() was invoked, and without any network call.
C10_ManifestErrorNoEffect ==
  [][(pc = "get_desired" /\ deps.kind # "ok") =>
       /\ pc' = "idle"
       /\ result' = "manifest_error"
       /\ dir' = pre.dir
       /\ marker' = pre.marker
       /\ ~tempDir'
       /\ ~Has("urlopen")']_vars

\* C10 amended: when _get_desired_version fails, the run ends in failure
\* without any network call, with the marker and the directory's contents
\* as they were when main() was invoked; the one effect that remains is the
\* resource directory created empty by main() when it did not exist.
C10_ManifestErrorOnlyMkdir ==
  [][(pc = "get_desired" /\ deps.kind # "ok") =>
       /\ pc' = "idle"
       /\ result' = "manifest_error"
       /\ dir' = (IF pre.dir = NoDir THEN EmptyDir ELSE pre.dir)
       /\ marker' = pre.marker
       /\ ~tempDir'
       /\ ~Has("urlopen")'
       /\ ~Has("mkdtemp")']_vars

C10_Witness ==
  /\ pc = "idle"
  /\ result = "manifest_error"
  /\ deps.kind = "nokey"
  /\ marker.exists
  /\ dir = pre.dir

====
